---- MODULE Spec2Model ----
(***************************************************************************)
(* Model of git_legal: the checkpointed crawl of BOEDownloader             *)
(* (downloader.py), the retrying fetch of APIClient.get_data               *)
(* (api_client.py), the index parser (parser.py) and the stores of         *)
(* csvstorage.py and storage.py.                                           *)
(*                                                                         *)
(* The specifications of the module:                                       *)
(*   Spec        the command line program: runs of main() over one data    *)
(*               directory, each run a sequential or a concurrent crawl;   *)
(*   SpecOneRun  one such run, its threads scheduled fairly;               *)
(*   SpecFetch   APIClient.get_data applied to every scripted endpoint;    *)
(*   SpecIndex   _process_item for the index target: IndexXmlParser.parse  *)
(*               and the store of its items;                               *)
(*   SpecStore   CsvStorage of storage.py and its get_values_for_date;     *)
(*   SpecAppend  concurrent appends to the CSV of csvstorage.py.           *)
(***************************************************************************)
EXTENDS Integers, Sequences, FiniteSets, TLC

(***************************************************************************)
(* Bounds of the model.                                                    *)
(***************************************************************************)
MaxId == 2          \* document identifiers are 1..MaxId
MaxRows == 2        \* rows of the stored index CSV
MaxWorkers == 2     \* --workers of a concurrent crawl
MaxNodes == 5       \* marks (elements) of an index document
MaxDate == 3        \* publication dates are 1..MaxDate
MaxBatch == 2       \* items handed to one save_items call

(***************************************************************************)
(* Program constants.                                                      *)
(***************************************************************************)
MaxRetries == 3     \* Config.max_retries

\* url_xml cells of the stored index: a cell > 0 is an URL whose query
\* carries id=<cell>; UrlSkipped is a cell that is empty, NaN or does not
\* start with "http"; UrlNoId is an http URL without an id parameter.
UrlSkipped == 0
UrlNoId == -1

Ids == 1..MaxId
UrlCells == Ids \cup {UrlSkipped, UrlNoId}
Workers == 1..MaxWorkers

VARIABLES
    csvFile,      \* rows of <output_dir>/<csv_filename>, below the header
    resumeFile,   \* content of Config.resume_file
    docFiles,     \* identifiers i with a file <documents_dir>/<i>.xml
    target,       \* positional argument of the run: "index" | "document"
    concurrent,   \* --concurrent given
    workers,      \* --workers of a concurrent run (1 in a sequential one)
    pc,           \* main(): "idle" | "running" | "done" | "error" | "interrupted"
    interrupted,  \* KeyboardInterrupt raised in the main thread, pool still draining
    dateRange,    \* date_range of the run (result of _get_parse_range)
    nextIdx,      \* position in dateRange of the next item to be started
    thr,          \* per thread: the _process_item call it is executing
    unit,         \* per position of dateRange: progress and outcome of its _process_item
    lastCkpt,     \* history: the unit whose state resumeFile holds
    atStart,      \* history: what the current run found when it started
    fetchAnswers, \* SpecFetch: the answers of the endpoint, one per attempt
    fetchScript,  \* SpecFetch: the same answers as get_data tells them apart
    fetchPc,      \* SpecFetch: "ready" | "returned"
    fetchOut,     \* SpecFetch: what get_data returned and what it did
    fetchText,    \* SpecFetch: the response_text get_data returned
    ixDoc,        \* SpecIndex: the index document get_data returned
    ixOwn,        \* SpecIndex: where the downloader's configuration puts its store
    ixStore,      \* SpecIndex: the record store (CSV) at each location
    ixPc,         \* SpecIndex: "fetched" | "parsed" | "saved" | "done"
    ixItems,      \* SpecIndex: the items parse returned
    ixSaved,      \* SpecIndex: what save_items returned
    stFile,       \* SpecStore: fecha_publicacion of the rows of the CSV
    stData,       \* SpecStore: CsvStorage.data, the rows held in memory
    stPc,         \* SpecStore: "new" | "ready" | "answered"
    stAsked,      \* SpecStore: the date of the last get_values_for_date
    stOut,        \* SpecStore: what that call returned
    apFile,       \* SpecAppend: the CSV that get_storer's stores share
    apJob         \* SpecAppend: per worker, its get_storer(...).save_items call

crawlVars == <<csvFile, resumeFile, docFiles, target, concurrent, workers, pc,
               interrupted, dateRange, nextIdx, thr, unit, lastCkpt, atStart>>
fetchVars == <<fetchAnswers, fetchScript, fetchPc, fetchOut, fetchText>>
indexVars == <<ixDoc, ixOwn, ixStore, ixPc, ixItems, ixSaved>>
\* The variables of the specifications of the single components.
storeVars == <<stFile, stData, stPc, stAsked, stOut>>
appendVars == <<apFile, apJob>>
partVars == <<fetchVars, indexVars, storeVars, appendVars>>
vars == <<crawlVars, partVars>>

(***************************************************************************)
(* APIClient.get_data                                                      *)
(***************************************************************************)
\* What one session.get can produce:
\*   "ok"        status 200, body non-empty and containing "xml"
\*   "nonxml"    status 200, body empty or without "xml"
\*   "notfound"  status 404
\*   "status"    any other status
\*   "exc"       requests.RequestException (timeout, connection error)
Responses == {"ok", "nonxml", "notfound", "status", "exc"}
Transient == {"nonxml", "status", "exc"}

\* One script per endpoint behaviour: the answer to each possible attempt.
Scripts == [1..(MaxRetries + 2) -> Responses]

\* The response bodies told apart: the empty one, an XML document with its
\* "<?xml" declaration, an XML document without declaration whose text has
\* no "xml" in it, a text that is no XML but mentions "xml", any other text.
Bodies == {"empty", "xmlDoc", "xmlBare", "textXml", "text"}

\* `"xml" in response.text`
ContainsXml(body) == body \in {"xmlDoc", "textXml"}

\* The body is an XML document.
IsXmlDocument(body) == body \in {"xmlDoc", "xmlBare"}

\* No response: session.get raised requests.RequestException.
NoResponse == [status |-> 0, body |-> "none"]

\* What the endpoint can answer to one session.get: a status with a body
\* (the body of a status other than 200 is never read), or no response.
Answers == {[status |-> 200, body |-> b] : b \in Bodies}
               \cup {[status |-> 404, body |-> "text"],
                     [status |-> 500, body |-> "text"], NoResponse}

\* Mutant: every status 200 counts as valid, whatever its body.
ClassifyAnyBody(answer) ==
    IF answer = NoResponse THEN "exc"
    ELSE IF answer.status = 200 THEN "ok"
    ELSE IF answer.status = 404 THEN "notfound"
    ELSE "status"

\* The branch of the attempt loop one answer takes.
Classify(answer) ==
    IF answer = NoResponse THEN "exc"
    ELSE IF answer.status = 200
    THEN IF answer.body # "empty" /\ ContainsXml(answer.body) THEN "ok"
         ELSE "nonxml"
    ELSE IF answer.status = 404 THEN "notfound"
    ELSE "status"

AnswerScripts == [1..(MaxRetries + 2) -> Answers]
ClassifyAll(answers) == [a \in DOMAIN answers |-> Classify(answers[a])]

\* Mutant: the loop runs range(max_retries), one attempt short.
AttemptLimitShort == MaxRetries

\* Number of iterations of the attempt loop: range(max_retries + 1).
AttemptLimit == MaxRetries + 1

\* Mutant: a 404 is handled like any other unexpected status and retried.
RECURSIVE GetDataLoopRetries404(_, _, _, _)
GetDataLoopRetries404(script, attempt, gets, sleeps) ==
    IF attempt >= AttemptLimit
    THEN [status |-> 0, gets |-> gets, sleeps |-> sleeps]
    ELSE LET s1 == IF attempt > 0 THEN sleeps + 1 ELSE sleeps
             r == script[attempt + 1]
         IN  IF r = "ok"
             THEN [status |-> 200, gets |-> gets + 1, sleeps |-> s1]
             ELSE IF r = "nonxml"
             THEN GetDataLoopRetries404(script, attempt + 1, gets + 1, s1 + 1)
             ELSE GetDataLoopRetries404(script, attempt + 1, gets + 1, s1)

\* The loop of get_data from iteration `attempt` (0-based) on; gets and
\* sleeps count the session.get and time.sleep calls made so far.
RECURSIVE GetDataLoop(_, _, _, _)
GetDataLoop(script, attempt, gets, sleeps) ==
    IF attempt >= AttemptLimit
    THEN [status |-> 0, gets |-> gets, sleeps |-> sleeps]
    ELSE LET s1 == IF attempt > 0 THEN sleeps + 1 ELSE sleeps
             r == script[attempt + 1]
         IN  IF r = "ok"
             THEN [status |-> 200, gets |-> gets + 1, sleeps |-> s1]
             ELSE IF r = "nonxml"
             THEN GetDataLoop(script, attempt + 1, gets + 1, s1 + 1)
             ELSE IF r = "notfound"
             THEN [status |-> 404, gets |-> gets + 1, sleeps |-> s1]
             ELSE GetDataLoop(script, attempt + 1, gets + 1, s1)

GetData(script) == GetDataLoop(script, 0, 0, 0)

\* The second component of what get_data returns: response.text of the
\* last request with status 200, None ("none") with 404 and 0.
ReturnedText(answers, out) ==
    IF out.status = 200 THEN answers[out.gets].body ELSE "none"

\* The status codes get_data can hand to _process_item.
FetchStatuses == {GetData(s).status : s \in Scripts}

(***************************************************************************)
(* CsvStorage.load_resume_state / save_resume_state                        *)
(***************************************************************************)
\* resumeFile is [kind, val]: kind "absent" (no file), "malformed" (empty,
\* truncated or garbled JSON) or "value" (a complete state with last_date = val).
NoResume == [kind |-> "absent", val |-> 0]
MalformedResume == [kind |-> "malformed", val |-> 0]
ResumeOf(indexer) == [kind |-> "value", val |-> indexer]

\* load_resume_state: None (here 0) unless the file holds a last_date.
LoadResumeState(file) == IF file.kind = "value" THEN file.val ELSE 0

\* The state a load finds in the file: the complete state it holds, none
\* otherwise.
Loaded(file) == IF file.kind = "value" THEN file ELSE NoResume

(***************************************************************************)
(* BOEDownloader._get_parse_range                                          *)
(***************************************************************************)
RECURSIVE BoeIds(_)
\* The loop over the url_xml column: skipped cells are dropped, the others
\* give their id.  (Cells without id raise, see ParseRange.)
BoeIds(rows) ==
    IF rows = <<>> THEN <<>>
    ELSE IF Head(rows).url_xml = UrlSkipped THEN BoeIds(Tail(rows))
    ELSE <<Head(rows).url_xml>> \o BoeIds(Tail(rows))

\* acc.index(x): position of the first occurrence of x in acc.
FirstIndex(acc, x) == CHOOSE i \in 1..Len(acc) :
                          acc[i] = x /\ \A j \in 1..(i - 1) : acc[j] # x

\* acc[acc.index(resume_checkpoint)+1:] when the checkpoint occurs in acc.
CutAfterCheckpoint(acc, checkpoint) ==
    IF checkpoint # 0 /\ \E i \in 1..Len(acc) : acc[i] = checkpoint
    THEN SubSeq(acc, FirstIndex(acc, checkpoint) + 1, Len(acc))
    ELSE acc

\* _get_parse_range(end_date_lit, target): [raised, range].
\*  target "index": the call date_literal_to_datetime(self.config.end_date)
\*  passes one argument to a function of two required parameters, which
\*  raises TypeError before any date is produced.
\*  target "document": the ids of the stored index after the checkpoint; a
\*  cell without id raises (TypeError or KeyError), which is not caught.
ParseRange(tgt, rows, file) ==
    IF tgt = "index"
    THEN [raised |-> TRUE, range |-> <<>>]
    ELSE IF \E i \in 1..Len(rows) : rows[i].url_xml = UrlNoId
    THEN [raised |-> TRUE, range |-> <<>>]
    ELSE [raised |-> FALSE,
          range |-> CutAfterCheckpoint(BoeIds(rows), LoadResumeState(file))]

(***************************************************************************)
(* State of threads and units of work                                      *)
(***************************************************************************)
\* A thread is idle or inside _process_item for position k of dateRange:
\*   "fetching"  cooldown applied, get_data in progress
\*   "store"     get_data returned 200: parse and save_items to come
\*   "ckpt"      save_resume_state to come
\*   "dump"      save_resume_state has opened (truncated) the file
IdleThread == [phase |-> "idle", k |-> 0]

IsBusy(t) == t.phase # "idle"

\* The thread that ran w's call is free again.  The threads of the pool are
\* interchangeable, so thr lists the busy ones first, in the order in which
\* they took their items, and the idle ones after them.
Release(w) ==
    LET busy == SelectSeq([thr EXCEPT ![w] = IdleThread], IsBusy)
    IN  [v \in Workers |-> IF v <= Len(busy) THEN busy[v] ELSE IdleThread]

\* A unit of work: st "Pending" | "InProgress" | "Done";
\* fetch "none" | "Success" | "NotFound" | "Exhausted";
\* stored: save_items returned; raised: _process_item ended by an exception;
\* ckpt: what save_resume_state did: "none" (not called), "written", or
\* "failed" (I/O error, or its text garbled with another thread's);
\* cooldowns: the calls of apply_cooldown made for the item.
PendingUnit == [st |-> "Pending", fetch |-> "none", stored |-> FALSE,
                raised |-> FALSE, ckpt |-> "none", cooldowns |-> 0]

\* Mutant: the sequential loop hands its items to the pool's threads too.
ActiveThreadsPooled == Workers

\* Threads that execute _process_item: the main thread (1) in a sequential
\* crawl, the pool's threads in a concurrent one.
ActiveThreads == IF concurrent THEN 1..workers ELSE {1}

AllIdle == \A w \in Workers : thr[w].phase = "idle"

Item(k) == dateRange[k]

(***************************************************************************)
(* IndexXmlParser.parse                                                    *)
(***************************************************************************)
\* An index document is told by the marks of its <diario>, in document
\* order: "S1" opens a <seccion codigo="1">, "S2" a <seccion> of another
\* codigo, "D" a <departamento> of the open section, "H" an <epigrafe> of
\* the open department, "E" closes the open <epigrafe>, "I" is an <item>
\* with an <url_xml>, "J" an <item> without one, each inside the open
\* epigrafe or else directly inside the open department.  An element is
\* named by its position: the department at p has codigo p, the epigrafe at
\* p has nombre p, the item at p has identifier p and its url_xml carries id=p.
Marks == {"S1", "S2", "D", "H", "E", "I", "J"}

MaxPos(S) == CHOOSE x \in S : \A y \in S : y <= x
MinPos(S) == CHOOSE x \in S : \A y \in S : x <= y

\* The last mark of one of the kinds before position p (0: there is none).
LastBefore(nodes, p, kinds) ==
    LET qs == {q \in 1..(p - 1) : nodes[q] \in kinds}
    IN  IF qs = {} THEN 0 ELSE MaxPos(qs)

\* The section, the department and the epigrafe that are open at p (0: none).
SectionOf(nodes, p) == LastBefore(nodes, p, {"S1", "S2"})
DeptOf(nodes, p) ==
    LET q == LastBefore(nodes, p, {"S1", "S2", "D"})
    IN  IF q > 0 /\ nodes[q] = "D" THEN q ELSE 0
HeadOf(nodes, p) ==
    LET q == LastBefore(nodes, p, {"S1", "S2", "D", "H", "E"})
    IN  IF q > 0 /\ nodes[q] = "H" THEN q ELSE 0

IsItem(nodes, p) == nodes[p] \in {"I", "J"}

WellFormed(nodes) ==
    \A p \in 1..Len(nodes) :
        /\ nodes[p] = "D" => SectionOf(nodes, p) > 0
        /\ nodes[p] = "H" => DeptOf(nodes, p) > 0 /\ HeadOf(nodes, p) = 0
        /\ nodes[p] = "E" => HeadOf(nodes, p) > 0
        /\ IsItem(nodes, p) => DeptOf(nodes, p) > 0

\* The identificador attribute of <sumario_diario>, when it has one.
SumarioId == MaxNodes + 1

\* The response texts: kind "malformed" (no XML), "status" (status/code is
\* missing or not "200") or "ok"; sumario is the identificador attribute of
\* <sumario_diario> (0: no such attribute, or no such element).
IndexDocs ==
    [kind : {"ok", "status"}, sumario : {0, SumarioId},
     nodes : {n \in UNION {[1..l -> Marks] : l \in 0..MaxNodes} : WellFormed(n)}]
        \cup {[kind |-> "malformed", sumario |-> 0, nodes |-> <<>>]}

\* decode_item(_, elem): one dict for the element, whatever the number of
\* its items; the loop over elem.findall(".//item") writes every item's
\* URLs into it, a later item's over an earlier one's.  (Of the URLs the
\* model keeps url_xml, the column the document crawl reads; 0: no such key.)
DecodeItem(nodes, items) ==
    LET withUrl == {i \in items : nodes[i] = "I"}
    IN  IF withUrl = {} THEN 0 ELSE MaxPos(withUrl)

\* The loop over departamento_item.findall(".//epigrafe"), from the first
\* epigrafe after position `from` on: one consolidated item per epigrafe.
RECURSIVE EpigrafeLoop(_, _, _)
EpigrafeLoop(doc, d, from) ==
    LET nodes == doc.nodes
        rest == {h \in DOMAIN nodes : h > from /\ nodes[h] = "H" /\ DeptOf(nodes, h) = d}
    IN  IF rest = {} THEN <<>>
        ELSE LET h == MinPos(rest)
                 items == {i \in DOMAIN nodes : IsItem(nodes, i) /\ HeadOf(nodes, i) = h}
             IN  <<[url_xml |-> DecodeItem(nodes, items),
                    epigrafe_nombre |-> h,
                    departamento_codigo |-> d,
                    identificador |-> doc.sumario]>>
                     \o EpigrafeLoop(doc, d, h)

\* The `else` of that loop, which has no `break` and so runs after every
\* loop: one more consolidated item, decoded from the whole department.
DepartmentItem(doc, d) ==
    LET nodes == doc.nodes
        items == {i \in DOMAIN nodes : IsItem(nodes, i) /\ DeptOf(nodes, i) = d}
    IN  [url_xml |-> DecodeItem(nodes, items),
         epigrafe_nombre |-> 0,
         departamento_codigo |-> d,
         identificador |-> doc.sumario]

\* The loop over seccion_item.findall(".//departamento").
RECURSIVE DepartmentLoop(_, _, _)
DepartmentLoop(doc, sec, from) ==
    LET nodes == doc.nodes
        rest == {d \in DOMAIN nodes : d > from /\ nodes[d] = "D" /\ SectionOf(nodes, d) = sec}
    IN  IF rest = {} THEN <<>>
        ELSE LET d == MinPos(rest)
             IN  EpigrafeLoop(doc, d, 0) \o <<DepartmentItem(doc, d)>>
                     \o DepartmentLoop(doc, sec, d)

\* parse(xml_content): [] for a text that is no XML or whose status code is
\* not "200"; else the items of the last <seccion> with codigo "1".
ParseIndex(doc) ==
    IF doc.kind # "ok" THEN <<>>
    ELSE LET secs == {p \in DOMAIN doc.nodes : doc.nodes[p] = "S1"}
         IN  IF secs = {} THEN <<>>
             ELSE DepartmentLoop(doc, MaxPos(secs), 0)

(***************************************************************************)
(* CsvStorage (csvstorage.py) and get_storer                               *)
(***************************************************************************)
\* Where a CSV can be: at the path of Config()'s defaults, or elsewhere
\* (--output-dir, --csv-filename).
Locations == {"default", "custom"}

\* A CSV: no file, or a file with its rows below the header.
NoFile == [exists |-> FALSE, rows |-> <<>>]
EmptyCsv == [exists |-> TRUE, rows |-> <<>>]

\* CsvStorage(config): _ensure_csv_exists writes the header when there is
\* no file.
EnsureCsvExists(file) == IF file.exists THEN file ELSE EmptyCsv

\* get_storer(target): the store of a new Config(), whatever the
\* configuration of the downloader.
StorerLocation == "default"

\* The day _process_item is called for.
IndexDay == 1

(***************************************************************************)
(* Initial state: a fresh data directory holding a stored index.           *)
(***************************************************************************)
RowsOf(n) == [1..n -> [url_xml : UrlCells]]
CsvFiles == UNION {RowsOf(n) : n \in 0..MaxRows}

\* resumeFile holds no complete state.
NoCkpt == [fetch |-> "none", stored |-> FALSE, target |-> "none"]

\* What a run finds at its start: the checkpoint it loads, and the documents a
\* finished run before it left in the store ({} after any other run).
FreshStart == [resume |-> NoResume, docs |-> {}]

CrawlInit ==
    /\ csvFile \in CsvFiles
    /\ resumeFile = NoResume
    /\ docFiles = {}
    /\ target = "document"
    /\ concurrent = FALSE
    /\ workers = 1
    /\ pc = "idle"
    /\ interrupted = FALSE
    /\ dateRange = <<>>
    /\ nextIdx = 1
    /\ thr = [w \in Workers |-> IdleThread]
    /\ unit = <<>>
    /\ lastCkpt = NoCkpt
    /\ atStart = FreshStart

FetchIdle ==
    /\ fetchAnswers = [a \in 1..(MaxRetries + 2) |-> [status |-> 200, body |-> "xmlDoc"]]
    /\ fetchScript = ClassifyAll(fetchAnswers)
    /\ fetchPc = "ready"
    /\ fetchOut = [status |-> 0, gets |-> 0, sleeps |-> 0]
    /\ fetchText = "none"

\* No _process_item call of SpecIndex is under way.
IndexIdle ==
    /\ ixDoc = [kind |-> "malformed", sumario |-> 0, nodes |-> <<>>]
    /\ ixOwn = "default"
    /\ ixStore = [l \in Locations |-> NoFile]
    /\ ixPc = "idle"
    /\ ixItems = <<>>
    /\ ixSaved = 0

\* No run of main() is under way, on a fresh data directory.
CrawlAtRest ==
    /\ csvFile = <<>>
    /\ resumeFile = NoResume
    /\ docFiles = {}
    /\ target = "document"
    /\ concurrent = FALSE
    /\ workers = 1
    /\ pc = "idle"
    /\ interrupted = FALSE
    /\ dateRange = <<>>
    /\ nextIdx = 1
    /\ thr = [w \in Workers |-> IdleThread]
    /\ unit = <<>>
    /\ lastCkpt = NoCkpt
    /\ atStart = FreshStart

\* No storage.CsvStorage of SpecStore has been built.
NoAnswer == [none |-> TRUE, rows |-> <<>>]
StoreIdle ==
    /\ stFile = <<>>
    /\ stData = <<>>
    /\ stPc = "idle"
    /\ stAsked = 0
    /\ stOut = NoAnswer

\* No worker of SpecAppend has a call under way.
IdleJob == [at |-> "idle", items |-> <<>>, ret |-> 0]
AppendIdle ==
    /\ apFile = [exists |-> FALSE, header |-> FALSE, rows |-> <<>>]
    /\ apJob = [w \in Workers |-> IdleJob]

Init == CrawlInit /\ FetchIdle /\ IndexIdle /\ StoreIdle /\ AppendIdle

(***************************************************************************)
(* cli.main and download_sequential / download_concurrent                  *)
(***************************************************************************)
\* Mutant: a run starts from scratch: it removes the resume state it finds
\* after computing its range.
StartRunClearsResume(tgt, conc, n) ==
    /\ pc \in {"idle", "done", "error", "interrupted"}
    /\ ~conc => n = 1
    /\ LET r == ParseRange(tgt, csvFile, resumeFile) IN
        /\ target' = tgt
        /\ concurrent' = conc
        /\ workers' = n
        /\ interrupted' = FALSE
        /\ atStart' = [resume |-> Loaded(resumeFile),
                       docs |-> IF pc = "done" THEN docFiles ELSE {}]
        /\ thr' = [w \in Workers |-> IdleThread]
        /\ nextIdx' = 1
        /\ pc' = IF r.raised THEN "error" ELSE "running"
        /\ dateRange' = r.range
        /\ unit' = [k \in 1..Len(r.range) |-> PendingUnit]
    /\ resumeFile' = NoResume
    /\ lastCkpt' = NoCkpt
    /\ UNCHANGED <<csvFile, docFiles>>
    /\ UNCHANGED partVars

\* main(): build the downloader and compute the range.  An exception of
\* _get_parse_range leaves main through `except Exception` (exit code 1).
\* Any number of runs may follow one another on the same data directory.
StartRun(tgt, conc, n) ==
    /\ pc \in {"idle", "done", "error", "interrupted"}
    /\ ~conc => n = 1
    /\ LET r == ParseRange(tgt, csvFile, resumeFile) IN
        /\ target' = tgt
        /\ concurrent' = conc
        /\ workers' = n
        /\ interrupted' = FALSE
        /\ atStart' = [resume |-> Loaded(resumeFile),
                       docs |-> IF pc = "done" THEN docFiles ELSE {}]
        /\ thr' = [w \in Workers |-> IdleThread]
        /\ nextIdx' = 1
        /\ IF r.raised
           THEN /\ pc' = "error"
                /\ dateRange' = <<>>
                /\ unit' = <<>>
           ELSE /\ pc' = "running"
                /\ dateRange' = r.range
                /\ unit' = [k \in 1..Len(r.range) |-> PendingUnit]
    /\ UNCHANGED <<csvFile, resumeFile, docFiles, lastCkpt>>
    /\ UNCHANGED partVars

\* Mutant: the loop does not move on to the next item of the range.
TakeAgain(w) ==
    /\ pc = "running"
    /\ w \in ActiveThreads
    /\ thr[w].phase = "idle"
    /\ \A v \in ActiveThreads : v < w => thr[v].phase # "idle"
    /\ nextIdx <= Len(dateRange)
    /\ thr' = [thr EXCEPT ![w] = [phase |-> "fetching", k |-> nextIdx]]
    /\ unit' = [unit EXCEPT ![nextIdx] =
                    [PendingUnit EXCEPT !.st = "InProgress", !.cooldowns = 1]]
    /\ UNCHANGED <<csvFile, resumeFile, docFiles, target, concurrent, workers, pc,
                   interrupted, dateRange, nextIdx, lastCkpt, atStart>>
    /\ UNCHANGED partVars

\* The next item of the range is started: the loop of download_sequential
\* calls _process_item, or a pool thread takes the oldest queued task (the
\* pool's threads are interchangeable: the idle one of least number takes it).
\* _process_item applies the cooldown and enters get_data.
Take(w) ==
    /\ pc = "running"
    /\ w \in ActiveThreads
    /\ thr[w].phase = "idle"
    /\ \A v \in ActiveThreads : v < w => thr[v].phase # "idle"
    /\ nextIdx <= Len(dateRange)
    /\ thr' = [thr EXCEPT ![w] = [phase |-> "fetching", k |-> nextIdx]]
    /\ unit' = [unit EXCEPT ![nextIdx].st = "InProgress",
                            ![nextIdx].cooldowns = @ + 1]
    /\ nextIdx' = nextIdx + 1
    /\ UNCHANGED <<csvFile, resumeFile, docFiles, target, concurrent, workers, pc,
                   interrupted, dateRange, lastCkpt, atStart>>
    /\ UNCHANGED partVars

\* Mutant: the guard `status_code != 0` is missing, so that a client-side
\* failure saves the resume state like a 404.
AfterFetchSavesAlways(status) ==
    IF status = 200 THEN "store" ELSE "ckpt"

\* Where _process_item goes with the status get_data returned: 200 with a
\* body to parse and save, 404 to save_resume_state, 0 to `return 0`.
AfterFetch(status) ==
    IF status = 200 THEN "store"
    ELSE IF status # 0 THEN "ckpt"
    ELSE "idle"

OutcomeOf(status) ==
    IF status = 200 THEN "Success"
    ELSE IF status = 404 THEN "NotFound"
    ELSE "Exhausted"

\* get_data returns.
FetchReturn(w) ==
    /\ pc = "running"
    /\ thr[w].phase = "fetching"
    /\ \E status \in FetchStatuses :
        LET k == thr[w].k
            ph == AfterFetch(status)
        IN  /\ thr' = IF ph = "idle" THEN Release(w)
                       ELSE [thr EXCEPT ![w] = [phase |-> ph, k |-> k]]
            /\ unit' = [unit EXCEPT ![k].fetch = OutcomeOf(status),
                                    ![k].st = IF ph = "idle" THEN "Done"
                                              ELSE "InProgress"]
    /\ UNCHANGED <<csvFile, resumeFile, docFiles, target, concurrent, workers, pc,
                   interrupted, dateRange, nextIdx, lastCkpt, atStart>>
    /\ UNCHANGED partVars

\* Mutant: neither dispatch loop catches the exception of _process_item:
\* the I/O error of the document store leaves main through its own
\* `except Exception` (exit code 1).
StoreUncaught(w) ==
    /\ pc = "running"
    /\ thr[w].phase = "store"
    /\ \E ioOk \in BOOLEAN :
        LET k == thr[w].k IN
        IF ioOk
        THEN /\ docFiles' = docFiles \cup {Item(k)}
             /\ thr' = [thr EXCEPT ![w].phase = "ckpt"]
             /\ unit' = [unit EXCEPT ![k].stored = TRUE]
             /\ pc' = pc
        ELSE /\ thr' = [v \in Workers |-> IdleThread]
             /\ unit' = [unit EXCEPT ![k].raised = TRUE, ![k].st = "Done"]
             /\ pc' = "error"
             /\ docFiles' = docFiles
    /\ UNCHANGED <<csvFile, resumeFile, target, concurrent, workers, interrupted,
                   dateRange, nextIdx, lastCkpt, atStart>>
    /\ UNCHANGED partVars

\* Mutant: the document store catches its I/O error and reports 0 saved, as
\* CsvStorage.save_items does, and the resume state is saved all the same.
StoreSwallowsError(w) ==
    /\ pc = "running"
    /\ thr[w].phase = "store"
    /\ \E ioOk \in BOOLEAN :
        LET k == thr[w].k IN
        /\ docFiles' = IF ioOk THEN docFiles \cup {Item(k)} ELSE docFiles
        /\ thr' = [thr EXCEPT ![w].phase = "ckpt"]
        /\ unit' = [unit EXCEPT ![k].stored = ioOk]
    /\ UNCHANGED <<csvFile, resumeFile, target, concurrent, workers, pc, interrupted,
                   dateRange, nextIdx, lastCkpt, atStart>>
    /\ UNCHANGED partVars

\* get_parser(target).parse and get_storer(target).save_items.
\*  "document": FileStorage.save_items writes <documents_dir>/<indexer>.xml;
\*  an I/O error is not caught there and ends _process_item (the caller
\*  logs it and goes on).
\*  "index": CsvStorage.save_items appends the parsed rows (any rows the
\*  bound leaves room for); an I/O error is caught there and 0 is returned,
\*  so save_resume_state follows either way.
Store(w) ==
    /\ pc = "running"
    /\ thr[w].phase = "store"
    /\ \E ioOk \in BOOLEAN :
        LET k == thr[w].k IN
        IF target = "document"
        THEN IF ioOk
             THEN /\ docFiles' = docFiles \cup {Item(k)}
                  /\ thr' = [thr EXCEPT ![w].phase = "ckpt"]
                  /\ unit' = [unit EXCEPT ![k].stored = TRUE]
                  /\ csvFile' = csvFile
             ELSE /\ thr' = Release(w)
                  /\ unit' = [unit EXCEPT ![k].raised = TRUE, ![k].st = "Done"]
                  /\ UNCHANGED <<docFiles, csvFile>>
        ELSE /\ \E items \in {r \in CsvFiles : Len(csvFile) + Len(r) <= MaxRows} :
                    csvFile' = IF ioOk THEN csvFile \o items ELSE csvFile
             /\ thr' = [thr EXCEPT ![w].phase = "ckpt"]
             /\ unit' = [unit EXCEPT ![k].stored = ioOk]
             /\ docFiles' = docFiles
    /\ UNCHANGED <<resumeFile, target, concurrent, workers, pc, interrupted,
                   dateRange, nextIdx, lastCkpt, atStart>>
    /\ UNCHANGED partVars

\* save_resume_state, first half: makedirs and open(resume_path, 'w'),
\* which truncates the file.  An error is caught and logged.
CkptOpen(w) ==
    /\ pc = "running"
    /\ thr[w].phase = "ckpt"
    /\ \E ioOk \in BOOLEAN :
        LET k == thr[w].k IN
        IF ioOk
        THEN /\ resumeFile' = MalformedResume
             /\ lastCkpt' = NoCkpt
             /\ thr' = [thr EXCEPT ![w].phase = "dump"]
             /\ unit' = unit
        ELSE /\ UNCHANGED <<resumeFile, lastCkpt>>
             /\ thr' = Release(w)
             /\ unit' = [unit EXCEPT ![k].ckpt = "failed", ![k].st = "Done"]
    /\ UNCHANGED <<csvFile, docFiles, target, concurrent, workers, pc, interrupted,
                   dateRange, nextIdx, atStart>>
    /\ UNCHANGED partVars

\* save_resume_state, second half: json.dump and close.  The thread writes
\* from offset 0 of the file it truncated.  When another thread has written
\* its state in between (the file holds a value again), the text of this
\* thread replaces it or, being shorter, leaves garbled JSON behind.  An
\* I/O error is caught and logged; it leaves the file as it is or, after a
\* partial write over another thread's state, garbled.
CkptDump(w) ==
    /\ pc = "running"
    /\ thr[w].phase = "dump"
    /\ \E how \in {"written", "failed", "garbled"} :
        LET k == thr[w].k IN
        /\ how = "garbled" => resumeFile.kind = "value"
        /\ IF how = "written"
           THEN /\ resumeFile' = ResumeOf(Item(k))
                /\ lastCkpt' = [fetch |-> unit[k].fetch,
                                stored |-> unit[k].stored, target |-> target]
                /\ unit' = [unit EXCEPT ![k].ckpt = "written", ![k].st = "Done"]
           ELSE /\ IF how = "failed"
                   THEN UNCHANGED <<resumeFile, lastCkpt>>
                   ELSE /\ resumeFile' = MalformedResume
                        /\ lastCkpt' = NoCkpt
                /\ unit' = [unit EXCEPT ![k].ckpt = "failed", ![k].st = "Done"]
        /\ thr' = Release(w)
    /\ UNCHANGED <<csvFile, docFiles, target, concurrent, workers, pc, interrupted,
                   dateRange, nextIdx, atStart>>
    /\ UNCHANGED partVars

\* The loop (or the pool) has run out of items: main returns 0, or 130 when
\* a KeyboardInterrupt was waiting for the pool to drain.
Finish ==
    /\ pc = "running"
    /\ nextIdx > Len(dateRange)
    /\ AllIdle
    /\ pc' = IF interrupted THEN "interrupted" ELSE "done"
    /\ UNCHANGED <<csvFile, resumeFile, docFiles, target, concurrent, workers,
                   interrupted, dateRange, nextIdx, thr, unit, lastCkpt, atStart>>
    /\ UNCHANGED partVars

\* KeyboardInterrupt in the main thread.  It is no Exception, so the loop
\* of download_sequential does not catch it: the item in progress is
\* abandoned where it is and main returns 130.  In download_concurrent it
\* leaves the `with` block, whose exit waits for the pool (shutdown with
\* wait=True): queued items are still processed.
Interrupt ==
    /\ pc = "running"
    /\ ~interrupted
    /\ IF concurrent
       THEN /\ interrupted' = TRUE
            /\ UNCHANGED <<pc, thr>>
       ELSE /\ pc' = "interrupted"
            /\ thr' = [w \in Workers |-> IdleThread]
            /\ interrupted' = TRUE
    /\ UNCHANGED <<csvFile, resumeFile, docFiles, target, concurrent, workers,
                   dateRange, nextIdx, unit, lastCkpt, atStart>>
    /\ UNCHANGED partVars

Next ==
    \/ \E tgt \in {"index", "document"}, conc \in BOOLEAN, n \in Workers :
           StartRun(tgt, conc, n)
    \/ \E w \in Workers : Take(w)
    \/ \E w \in Workers : FetchReturn(w)
    \/ \E w \in Workers : Store(w)
    \/ \E w \in Workers : CkptOpen(w)
    \/ \E w \in Workers : CkptDump(w)
    \/ Finish
    \/ Interrupt

Spec == Init /\ [][Next]_vars

(***************************************************************************)
(* Properties of the crawl (Spec).                                         *)
(***************************************************************************)
Units == DOMAIN unit
Done(k) == unit[k].st = "Done"
MaxOf(S) == CHOOSE x \in S : \A y \in S : y <= x

\* No store or checkpoint write of the run was lost.
NoIoError == \A k \in Units : ~unit[k].raised /\ unit[k].ckpt # "failed"

\* C1 as stated: in a sequential crawl, right after an item is done,
\* whatever its fetch gave (Exhausted included), the checkpoint is that
\* item.  I/O errors of the stores are left aside.
C1_CheckpointAfterEveryOutcome ==
    \A k \in Units :
        (~concurrent /\ Done(k) /\ k = nextIdx - 1 /\ NoIoError)
            => resumeFile = ResumeOf(Item(k))

\* C1 amended: every item of a finished crawl is done; save_resume_state is
\* called for an item exactly when its fetch ended NotFound, or Success and
\* the store did not raise, and never when it ended Exhausted; in a
\* sequential crawl the checkpoint is that item right after a call that
\* wrote the file.
C1_CheckpointBySuccessOrNotFound ==
    /\ pc = "done" => \A k \in Units : Done(k)
    /\ \A k \in Units : Done(k) =>
        /\ unit[k].fetch = "Exhausted" => unit[k].ckpt = "none"
        /\ unit[k].fetch = "NotFound" => unit[k].ckpt # "none"
        /\ unit[k].fetch = "Success" => (unit[k].ckpt # "none" <=> ~unit[k].raised)
        /\ (~concurrent /\ k = nextIdx - 1 /\ unit[k].ckpt = "written")
               => resumeFile = ResumeOf(Item(k))

\* An item ended Exhausted after another one was checkpointed: the
\* checkpoint still names the earlier item.
C1_Witness ==
    \E k \in Units :
        /\ k > 1 /\ ~concurrent
        /\ Done(k) /\ unit[k].fetch = "Exhausted"
        /\ unit[k - 1].ckpt = "written"
        /\ Item(k) # Item(k - 1)
        /\ resumeFile = ResumeOf(Item(k - 1))

\* The units whose save_resume_state wrote the file.
Written == {k \in Units : unit[k].ckpt = "written"}

C3_CheckpointIsLastOfRange ==
    (pc = "done" /\ ~concurrent /\ Len(dateRange) > 0 /\ NoIoError)
        => resumeFile = ResumeOf(Item(Len(dateRange)))

\* The units that reach save_resume_state: fetch ended NotFound, or Success
\* with the document stored.
Checkpointing == {k \in Units : /\ unit[k].fetch \in {"Success", "NotFound"}
                                /\ ~unit[k].raised}

\* C3 amended: a finished sequential crawl leaves the checkpoint at the
\* last item of the range whose fetch ended Success (and was stored) or
\* NotFound, provided that write succeeded; with no such item the
\* checkpoint is what the crawl found at its start.
C3_CheckpointIsLastFetched ==
    (pc = "done" /\ ~concurrent) =>
        IF Checkpointing = {}
        THEN Loaded(resumeFile) = atStart.resume
        ELSE unit[MaxOf(Checkpointing)].ckpt = "written"
                 => resumeFile = ResumeOf(Item(MaxOf(Checkpointing)))

\* A finished sequential crawl whose last item ended Exhausted: the
\* checkpoint names the first item.
C3_Witness ==
    /\ pc = "done" /\ ~concurrent
    /\ Len(dateRange) = 2
    /\ unit[2].fetch = "Exhausted"
    /\ unit[1].ckpt = "written"
    /\ Item(1) # Item(2)
    /\ resumeFile = ResumeOf(Item(1))

\* C4 as stated: while the checkpoint is written for an item, every item
\* before it in the visiting order is done and no item after it has been
\* started, in sequential and in concurrent dispatch.
C4_CheckpointWriteAtBarrier ==
    \A w \in Workers :
        thr[w].phase = "dump" =>
            /\ \A j \in Units : j < thr[w].k => Done(j)
            /\ \A j \in Units : j > thr[w].k => unit[j].st = "Pending"

C7_ResumesAfterCheckpoint ==
    (pc # "idle" /\ target = "index" /\ atStart.resume.kind = "value") =>
        /\ pc # "error"
        /\ dateRange # <<>> => dateRange[1] = atStart.resume.val + 1

\* C8 as stated: in a run that follows a finished run, an item whose record
\* the store already holds from that run is used as is: it is not fetched
\* and stored again.
C8_StoredUnitsNotFetchedAgain ==
    \A k \in Units : unit[k].st # "Pending" => Item(k) \notin atStart.docs

\* C12: the failure of one item is confined to it.  A run leaves its loop
\* with an item not done only by an interrupt; main ends in error only
\* when the range could not be computed, never through an item; and a
\* finished run, sequential or concurrent, has done every item of the
\* range, those after an item that ended Exhausted or raised included.
C12_FailureConfinedToItem ==
    /\ pc = "error" => unit = <<>>
    /\ (pc # "running" /\ \E k \in Units : ~Done(k)) => pc = "interrupted"
    /\ pc = "done" =>
           \A j, k \in Units :
               (j < k /\ (unit[j].raised \/ unit[j].fetch = "Exhausted"))
                   => Done(k) /\ unit[k].fetch # "none"

\* A finished concurrent run: the store of the first item raised, the
\* second item was fetched, stored and checkpointed all the same.
C12_Witness ==
    /\ pc = "done" /\ concurrent
    /\ Len(dateRange) = 2
    /\ unit[1].raised
    /\ unit[2].fetch = "Success" /\ unit[2].ckpt = "written"

C16_NoCheckpointPastFailedStore ==
    target = "document" =>
        \A i \in Units : unit[i].raised =>
            /\ unit[i].ckpt = "none"
            /\ \A j \in Units : j > i => unit[j].ckpt # "written"

\* C16 amended: in a document crawl, an item whose fetch ended Success is
\* done either with its document stored, or with the store having raised
\* and save_resume_state not called for it.  (Later items are processed
\* and checkpointed all the same.)
C16_FailedStoreSkipsOwnCheckpoint ==
    target = "document" =>
        \A i \in Units : (Done(i) /\ unit[i].fetch = "Success") =>
            \/ unit[i].stored /\ ~unit[i].raised /\ unit[i].ckpt # "none"
            \/ ~unit[i].stored /\ unit[i].raised /\ unit[i].ckpt = "none"

\* Sequential document crawl: the store of the first item raised, the
\* second item was stored and the checkpoint names it; the first document
\* is not in the store.
C16_Witness ==
    /\ target = "document" /\ ~concurrent
    /\ Len(dateRange) = 2
    /\ unit[1].raised /\ unit[1].ckpt = "none"
    /\ unit[2].ckpt = "written"
    /\ resumeFile = ResumeOf(Item(2))
    /\ Item(1) \notin docFiles

\* C17 as stated: a run that finds no checkpoint file, or one that holds no
\* last_date, loads None and starts fresh: it does not abort for it, and it
\* takes the whole range.  (Stored indexes with a cell that makes the range
\* computation raise by itself are left aside.)
C17_StartsFreshWithoutCheckpoint ==
    (/\ pc # "idle"
     /\ atStart.resume = NoResume
     /\ \A i \in 1..Len(csvFile) : csvFile[i].url_xml # UrlNoId)
        => /\ LoadResumeState(atStart.resume) = 0
           /\ pc # "error"
           /\ target = "document" => dateRange = BoeIds(csvFile)

\* C19 as stated: once the interrupt has arrived in a run that has started
\* on its items, the run starts no further item: every item pending then
\* stays pending.
C19_NoStartAfterInterrupt ==
    [][(interrupted /\ pc = "running" /\ \E j \in Units : unit[j].st # "Pending") =>
           \A k \in Units : unit[k].st = "Pending" => unit'[k].st = "Pending"]_vars

\* C20 as stated: the cooldown is applied once before an item's fetch when
\* the run has one worker, and not at all when it has more than one.
C20_CooldownOnlyWithOneWorker ==
    \A k \in Units : unit[k].st # "Pending" =>
        unit[k].cooldowns = IF workers = 1 THEN 1 ELSE 0

\* C26 as stated: a document crawl is resumed after a sequential document
\* crawl that lost no write and checkpointed the last item it started, so
\* that the checkpoint is the last item it processed.  The work list of the
\* resumed crawl is what followed that item in the earlier work list.
C26_ResumeAfterLastProcessed ==
    [][(/\ pc \in {"done", "interrupted"} /\ pc' = "running"
        /\ target = "document" /\ target' = "document"
        /\ ~concurrent /\ NoIoError
        /\ nextIdx > 1 /\ unit[nextIdx - 1].ckpt = "written")
           => dateRange' = SubSeq(dateRange, nextIdx, Len(dateRange))]_vars

\* C27 as stated: the checkpoint a run loads at its start was written by a
\* run of its own mode.
C27_CheckpointOfOwnMode ==
    [][(pc # "running" /\ pc' \in {"running", "error"} /\ resumeFile.kind = "value")
           => lastCkpt.target = target']_vars

(***************************************************************************)
(* SpecOneRun: one run of main() on a fresh data directory, its threads    *)
(* scheduled fairly.                                                       *)
(***************************************************************************)
\* main() is called once.
FirstRun(tgt, conc, n) == pc = "idle" /\ StartRun(tgt, conc, n)

NextOneRun ==
    \/ \E tgt \in {"index", "document"}, conc \in BOOLEAN, n \in Workers :
           FirstRun(tgt, conc, n)
    \/ \E w \in Workers : Take(w)
    \/ \E w \in Workers : FetchReturn(w)
    \/ \E w \in Workers : Store(w)
    \/ \E w \in Workers : CkptOpen(w)
    \/ \E w \in Workers : CkptDump(w)
    \/ Finish
    \/ Interrupt

\* Every thread that can take a step eventually takes it: the loop and the
\* pool go on to the next item; get_data returns (each request has a
\* timeout of 30 s and the attempts are bounded); the writes to the stores
\* return.  Nothing obliges a run to start or an interrupt to arrive.
FairSchedule ==
    /\ WF_vars(\E w \in Workers : Take(w))
    /\ WF_vars(\E w \in Workers : FetchReturn(w))
    /\ WF_vars(\E w \in Workers : Store(w))
    /\ WF_vars(\E w \in Workers : CkptOpen(w))
    /\ WF_vars(\E w \in Workers : CkptDump(w))
    /\ WF_vars(Finish)

SpecOneRun == Init /\ [][NextOneRun]_vars /\ FairSchedule

\* C13: whatever the range and whatever the fetches give, a running crawl
\* eventually ends, and a crawl that ends without an interrupt ends with
\* every item of the range done (none pending, none in progress).
C13_CrawlTerminates ==
    (pc = "running") ~>
        (\/ pc = "interrupted"
         \/ pc = "done" /\ \A k \in Units : Done(k))

\* A finished crawl over a range of MaxRows items whose fetches all ended
\* Exhausted.
C13_Witness ==
    /\ pc = "done"
    /\ Len(dateRange) = MaxRows
    /\ \A k \in Units : Done(k) /\ unit[k].fetch = "Exhausted"

(***************************************************************************)
(* SpecFetch: get_data against every scripted endpoint.                    *)
(***************************************************************************)
FetchInit ==
    /\ fetchAnswers \in AnswerScripts
    /\ fetchScript = ClassifyAll(fetchAnswers)
    /\ fetchPc = "ready"
    /\ fetchOut = [status |-> 0, gets |-> 0, sleeps |-> 0]
    /\ fetchText = "none"
    /\ IndexIdle /\ StoreIdle /\ AppendIdle
    /\ csvFile = <<>>
    /\ resumeFile = NoResume
    /\ docFiles = {}
    /\ target = "document"
    /\ concurrent = FALSE
    /\ workers = 1
    /\ pc = "idle"
    /\ interrupted = FALSE
    /\ dateRange = <<>>
    /\ nextIdx = 1
    /\ thr = [w \in Workers |-> IdleThread]
    /\ unit = <<>>
    /\ lastCkpt = NoCkpt
    /\ atStart = FreshStart

FetchCall ==
    /\ fetchPc = "ready"
    /\ fetchOut' = GetData(fetchScript)
    /\ fetchText' = ReturnedText(fetchAnswers, GetData(fetchScript))
    /\ fetchPc' = "returned"
    /\ UNCHANGED <<fetchAnswers, fetchScript>>
    /\ UNCHANGED <<crawlVars, indexVars, storeVars, appendVars>>

FetchNext == FetchCall

SpecFetch == FetchInit /\ [][FetchNext]_vars

(***************************************************************************)
(* Properties of get_data (SpecFetch).                                     *)
(***************************************************************************)
\* The attempts the loop may make at most, as the claims count them.
Attempts == 1..(MaxRetries + 1)

\* C9: against an endpoint that answers every attempt with a transient
\* failure, get_data makes exactly max_retries + 1 requests and returns the
\* client-side failure (status 0, Exhausted).
C9_RetryBound ==
    (fetchPc = "returned" /\ \A a \in DOMAIN fetchScript : fetchScript[a] \in Transient)
        => fetchOut.gets = MaxRetries + 1 /\ fetchOut.status = 0

\* get_data has returned Exhausted from an endpoint that mixes the three
\* kinds of transient failure.
C9_Witness ==
    /\ fetchPc = "returned"
    /\ \A a \in DOMAIN fetchScript : fetchScript[a] \in Transient
    /\ \A r \in Transient : \E a \in Attempts : fetchScript[a] = r
    /\ fetchOut.status = 0

\* C10: when an attempt within the limit receives 404 and the attempts
\* before it failed transiently, get_data returns NotFound with that
\* attempt as its last request; a 404 on the first attempt makes exactly
\* one request.
C10_NotFoundShortCircuit ==
    \A a \in Attempts :
        (/\ fetchPc = "returned"
         /\ fetchScript[a] = "notfound"
         /\ \A b \in 1..(a - 1) : fetchScript[b] \in Transient)
            => fetchOut.status = 404 /\ fetchOut.gets = a

\* A 404 on the first attempt of an endpoint that would answer 200 to the
\* second: one request was made.
C10_Witness ==
    /\ fetchPc = "returned"
    /\ fetchScript[1] = "notfound" /\ fetchScript[2] = "ok"
    /\ fetchOut.status = 404 /\ fetchOut.gets = 1

\* An answer that is no terminal response as get_data tests it: no response,
\* a status other than 200 and 404, or a 200 whose body is empty or has no
\* "xml" in its text.
RetriedAnswer(x) ==
    \/ x = NoResponse
    \/ x.status \notin {200, 404}
    \/ x.status = 200 /\ (x.body = "empty" \/ ~ContainsXml(x.body))

\* An answer that is a transient failure as the claim lists them: no
\* response, a status other than 200 and 404, or a 200 whose body is empty
\* or no XML document.
TransientAnswer(x) ==
    \/ x = NoResponse
    \/ x.status \notin {200, 404}
    \/ x.status = 200 /\ (x.body = "empty" \/ ~IsXmlDocument(x.body))

IndexInit ==
    /\ ixDoc \in IndexDocs
    /\ ixOwn \in Locations
    /\ ixStore = [l \in Locations |-> IF l = ixOwn THEN EmptyCsv ELSE NoFile]
    /\ ixPc = "fetched"
    /\ ixItems = <<>>
    /\ ixSaved = 0
    /\ CrawlAtRest
    /\ FetchIdle /\ StoreIdle /\ AppendIdle

\* items = get_parser(target).parse(response_text)
IndexParse ==
    /\ ixPc = "fetched"
    /\ ixItems' = ParseIndex(ixDoc)
    /\ ixPc' = "parsed"
    /\ UNCHANGED <<ixDoc, ixOwn, ixStore, ixSaved>>
    /\ UNCHANGED <<crawlVars, fetchVars, storeVars, appendVars>>

\* saved_count = get_storer(target).save_items(items, indexer): the store
\* is built, which creates its CSV when there is none; save_items returns
\* 0 for no items, else appends a row per item and returns their number.
\* An error while appending (after `written` rows) is caught: 0 is
\* returned, the rows written before it stay in the file.
IndexSave ==
    /\ ixPc = "parsed"
    /\ LET file == EnsureCsvExists(ixStore[StorerLocation]) IN
        IF ixItems = <<>>
        THEN /\ ixStore' = [ixStore EXCEPT ![StorerLocation] = file]
             /\ ixSaved' = 0
        ELSE \E written \in 0..Len(ixItems) :
             /\ ixStore' = [ixStore EXCEPT ![StorerLocation] =
                                [file EXCEPT !.rows = @ \o SubSeq(ixItems, 1, written)]]
             /\ ixSaved' = IF written = Len(ixItems) THEN written ELSE 0
    /\ ixPc' = "saved"
    /\ UNCHANGED <<ixDoc, ixOwn, ixItems>>
    /\ UNCHANGED <<crawlVars, fetchVars, storeVars, appendVars>>

\* self.storage.save_resume_state(indexer): the file is written, or the
\* error is caught that left it as it was or truncated.
IndexCheckpoint ==
    /\ ixPc = "saved"
    /\ \E how \in {"written", "failed", "truncated"} :
        /\ resumeFile' = IF how = "written" THEN ResumeOf(IndexDay)
                         ELSE IF how = "truncated" THEN MalformedResume
                         ELSE resumeFile
        /\ lastCkpt' = IF how = "written"
                       THEN [fetch |-> "Success", stored |-> TRUE, target |-> "index"]
                       ELSE lastCkpt
    /\ ixPc' = "done"
    /\ UNCHANGED <<csvFile, docFiles, target, concurrent, workers, pc, interrupted,
                   dateRange, nextIdx, thr, unit, atStart>>
    /\ UNCHANGED <<ixDoc, ixOwn, ixStore, ixItems, ixSaved>>
    /\ UNCHANGED <<fetchVars, storeVars, appendVars>>

IndexNext == IndexParse \/ IndexSave \/ IndexCheckpoint

SpecIndex == IndexInit /\ [][IndexNext]_vars

(***************************************************************************)
(* Properties of the index pass (SpecIndex).                               *)
(***************************************************************************)
\* parse has returned.
Parsed == ixPc \in {"parsed", "saved", "done"}

\* The <item> elements of a document, and the k-th of them in document order.
ItemsOf(nodes) == {p \in DOMAIN nodes : IsItem(nodes, p)}
KthItem(nodes, k) ==
    CHOOSE p \in ItemsOf(nodes) : Cardinality({q \in ItemsOf(nodes) : q <= p}) = k

\* C21 as stated: every row of a record store carries an identifier (of
\* whatever element): no row is persisted with an empty identificador.
C21_RowsHaveIdentifier ==
    \A l \in Locations : \A i \in DOMAIN ixStore[l].rows :
        ixStore[l].rows[i].identificador # 0

\* C22 as stated: for a document with status code 200, parse returns one
\* record per <item> of the document, in document order: the k-th record
\* is that of the k-th item, with its URL, its department and its heading.
C22_OneRecordPerItem ==
    (Parsed /\ ixDoc.kind = "ok") =>
        /\ Len(ixItems) = Cardinality(ItemsOf(ixDoc.nodes))
        /\ \A k \in DOMAIN ixItems :
               k <= Cardinality(ItemsOf(ixDoc.nodes)) =>
                   LET p == KthItem(ixDoc.nodes, k) IN
                   /\ ixItems[k].url_xml = IF ixDoc.nodes[p] = "I" THEN p ELSE 0
                   /\ ixItems[k].departamento_codigo = DeptOf(ixDoc.nodes, p)
                   /\ ixItems[k].epigrafe_nombre = HeadOf(ixDoc.nodes, p)

\* The departments parse visits: those of the last section with codigo "1".
VisitedDepts(nodes) ==
    {d \in DOMAIN nodes :
        /\ nodes[d] = "D"
        /\ nodes[SectionOf(nodes, d)] = "S1"
        /\ \A q \in DOMAIN nodes : nodes[q] = "S1" => q <= SectionOf(nodes, d)}

\* C23 as stated, for the departments parse visits: a department without
\* headings yields a record for each of its items, and its records carry
\* its code, no heading name and nothing of an element outside it.
C23_HeadlessDepartmentItems ==
    (Parsed /\ ixDoc.kind = "ok") =>
        \A d \in VisitedDepts(ixDoc.nodes) :
            LET nodes == ixDoc.nodes
                heads == {h \in DOMAIN nodes : nodes[h] = "H" /\ DeptOf(nodes, h) = d}
                items == {i \in ItemsOf(nodes) : DeptOf(nodes, i) = d}
                recs == {k \in DOMAIN ixItems : ixItems[k].departamento_codigo = d}
            IN  heads = {} =>
                    /\ Cardinality(recs) >= Cardinality(items)
                    /\ \A i \in items : nodes[i] = "I" =>
                           \E k \in recs : ixItems[k].url_xml = i
                    /\ \A k \in recs :
                           /\ ixItems[k].epigrafe_nombre = 0
                           /\ ixItems[k].url_xml \in items \cup {0}

\* C28 as stated: the rows a crawl appends go to the store of the
\* downloader's own configuration, and no store elsewhere gets a row.
C28_RowsGoToOwnStore ==
    ixPc \in {"saved", "done"} =>
        /\ \A l \in Locations : l # ixOwn => ixStore[l].rows = <<>>
        /\ ixSaved > 0 => ixStore[ixOwn].rows = ixItems

(***************************************************************************)
(* SpecStore: one CsvStorage of storage.py, built over a CSV and then      *)
(* appended to and asked for dates in any order.  A row is told by its     *)
(* fecha_publicacion.                                                      *)
(***************************************************************************)
Dates == 1..MaxDate
StoredRows == UNION {[1..n -> Dates] : n \in 0..MaxRows}
Batches == UNION {[1..n -> Dates] : n \in 0..MaxBatch}

\* df.sort_values('fecha_publicacion')
RECURSIVE SortValues(_)
SortValues(rows) ==
    IF rows = <<>> THEN <<>>
    ELSE LET m == MinPos({rows[j] : j \in DOMAIN rows})
             i == MinPos({j \in DOMAIN rows : rows[j] = m})
         IN  <<m>> \o SortValues(SubSeq(rows, 1, i - 1) \o SubSeq(rows, i + 1, Len(rows)))

\* get_values_for_date(date) over self.data: None for an empty table or a
\* date beyond its least and greatest date, else the rows of that date.
GetValuesForDate(data, date) ==
    IF data = <<>>
    THEN NoAnswer
    ELSE LET dates == {data[i] : i \in DOMAIN data}
             Is(r) == r = date
         IN  IF date > MaxPos(dates) \/ date < MinPos(dates)
             THEN NoAnswer
             ELSE [none |-> FALSE, rows |-> SelectSeq(data, Is)]

StoreInit ==
    /\ stFile \in StoredRows
    /\ stData = <<>>
    /\ stPc = "new"
    /\ stAsked = 0
    /\ stOut = NoAnswer
    /\ CrawlAtRest
    /\ FetchIdle /\ IndexIdle /\ AppendIdle

\* CsvStorage(config): self.data = self._load_data()
StoreLoad ==
    /\ stPc = "new"
    /\ stData' = SortValues(stFile)
    /\ stPc' = "ready"
    /\ UNCHANGED <<stFile, stAsked, stOut>>
    /\ UNCHANGED <<crawlVars, fetchVars, indexVars, appendVars>>

\* save_items(items): nothing for no items; else the rows are appended to
\* the file and then to self.data.  An error while appending (after
\* `written` rows) is caught: the rows written before it stay in the
\* file, self.data is left as it was.
StoreAppend(items) ==
    /\ stPc \in {"ready", "answered"}
    /\ Len(stFile) + Len(items) <= MaxRows + MaxBatch
    /\ IF items = <<>>
       THEN UNCHANGED <<stFile, stData>>
       ELSE \E written \in 0..Len(items) :
            /\ stFile' = stFile \o SubSeq(items, 1, written)
            /\ stData' = IF written = Len(items) THEN stData \o items ELSE stData
    /\ stPc' = "ready"
    /\ UNCHANGED <<stAsked, stOut>>
    /\ UNCHANGED <<crawlVars, fetchVars, indexVars, appendVars>>

\* get_values_for_date(date)
StoreQuery(date) ==
    /\ stPc \in {"ready", "answered"}
    /\ stOut' = GetValuesForDate(stData, date)
    /\ stAsked' = date
    /\ stPc' = "answered"
    /\ UNCHANGED <<stFile, stData>>
    /\ UNCHANGED <<crawlVars, fetchVars, indexVars, appendVars>>

StoreNext ==
    \/ StoreLoad
    \/ \E items \in Batches : StoreAppend(items)
    \/ \E date \in Dates : StoreQuery(date)

SpecStore == StoreInit /\ [][StoreNext]_vars

\* C24 as stated: get_values_for_date(d) returns None exactly when the
\* store holds no row or d lies outside the least and greatest stored
\* date, and otherwise exactly the stored rows of date d.
C24_AnswersFromStoredRows ==
    stPc = "answered" =>
        LET dates == {stFile[i] : i \in DOMAIN stFile}
            outside == IF stFile = <<>> THEN TRUE
                       ELSE stAsked < MinPos(dates) \/ stAsked > MaxPos(dates)
            Is(r) == r = stAsked
        IN  /\ stOut.none <=> outside
            /\ ~outside => stOut.rows = SelectSeq(stFile, Is)

(***************************************************************************)
(* SpecAppend: the workers of a concurrent index pass, each in             *)
(* get_storer("index").save_items(items, indexer), on the CSV of Config(). *)
(***************************************************************************)
\* A row: from = 0 for a row the file held at the start, else the worker
\* that wrote it; blank for a row written under a header that was none.
Row(w) == [from |-> w, blank |-> FALSE]
BlankRow(w) == [from |-> w, blank |-> TRUE]

\* The CSVs the calls can find: none, a header, or a header and a row.
AppendFiles ==
    {[exists |-> FALSE, header |-> FALSE, rows |-> <<>>],
     [exists |-> TRUE, header |-> TRUE, rows |-> <<>>],
     [exists |-> TRUE, header |-> TRUE, rows |-> <<Row(0)>>]}

IsPrefix(s, t) == Len(s) <= Len(t) /\ SubSeq(t, 1, Len(s)) = s

AppendInit ==
    /\ apFile \in AppendFiles
    /\ apJob \in [Workers -> {[at |-> "start", items |-> [i \in 1..n |-> 0], ret |-> 0] :
                                n \in 0..MaxBatch}]
    /\ CrawlAtRest
    /\ FetchIdle /\ IndexIdle /\ StoreIdle

\* _ensure_csv_exists: `if not os.path.exists(self.csv_path)`
AppendExists(w) ==
    /\ apJob[w].at = "start"
    /\ apJob' = [apJob EXCEPT ![w].at = IF apFile.exists THEN "built" ELSE "create"]
    /\ UNCHANGED apFile
    /\ UNCHANGED <<crawlVars, fetchVars, indexVars, storeVars>>

\* _ensure_csv_exists: open(self.csv_path, 'w') creates the file, or
\* truncates the one another worker has created since the test.
AppendCreate(w) ==
    /\ apJob[w].at = "create"
    /\ apFile' = [exists |-> TRUE, header |-> FALSE, rows |-> <<>>]
    /\ apJob' = [apJob EXCEPT ![w].at = "header"]
    /\ UNCHANGED <<crawlVars, fetchVars, indexVars, storeVars>>

\* _ensure_csv_exists: writeheader and close.  The header goes to offset 0
\* of the file: over the same header, into the empty file, or over the
\* first rows another worker has appended to the truncated file.
AppendHeader(w) ==
    /\ apJob[w].at = "header"
    /\ IF apFile.header
       THEN UNCHANGED apFile
       ELSE IF apFile.rows = <<>>
       THEN apFile' = [apFile EXCEPT !.header = TRUE]
       ELSE \E k \in 1..Len(apFile.rows) :
                apFile' = [apFile EXCEPT !.header = TRUE,
                                         !.rows = SubSeq(@, k + 1, Len(@))]
    /\ apJob' = [apJob EXCEPT ![w].at = "built"]
    /\ UNCHANGED <<crawlVars, fetchVars, indexVars, storeVars>>

\* save_items: `if not items: return 0`; else the header is read (an
\* empty file ends the call: StopIteration is caught and 0 returned).
AppendRead(w) ==
    /\ apJob[w].at = "built"
    /\ apJob' = [apJob EXCEPT ![w].at =
                    IF apJob[w].items = <<>> THEN "done"
                    ELSE IF apFile.header THEN "append"
                    ELSE IF apFile.rows = <<>> THEN "done"
                    ELSE "appendBlank"]
    /\ UNCHANGED apFile
    /\ UNCHANGED <<crawlVars, fetchVars, indexVars, storeVars>>

\* save_items: open(self.csv_path, 'a'), a row per item, close; an error
\* (after `written` rows) is caught and 0 returned.
AppendRows(w) ==
    /\ apJob[w].at \in {"append", "appendBlank"}
    /\ \E written \in 0..Len(apJob[w].items) :
        /\ apFile' = [apFile EXCEPT !.rows = @ \o
                         [i \in 1..written |-> IF apJob[w].at = "append"
                                               THEN Row(w) ELSE BlankRow(w)]]
        /\ apJob' = [apJob EXCEPT ![w].at = "done",
                                  ![w].ret = IF written = Len(apJob[w].items)
                                             THEN written ELSE 0]
    /\ UNCHANGED <<crawlVars, fetchVars, indexVars, storeVars>>

AppendNext ==
    \E w \in Workers :
        \/ AppendExists(w)
        \/ AppendCreate(w)
        \/ AppendHeader(w)
        \/ AppendRead(w)
        \/ AppendRows(w)

SpecAppend == AppendInit /\ [][AppendNext]_vars

\* C25 as stated: no step of an append takes the header away or changes
\* or removes a row the file holds, and appending no items changes
\* nothing and returns 0.
C25_RowsNeverRewritten ==
    [][/\ apFile.exists => apFile'.exists
       /\ apFile.header => apFile'.header
       /\ IsPrefix(apFile.rows, apFile'.rows)
       /\ \A w \in Workers :
              (apJob[w].at = "built" /\ apJob[w].items = <<>> /\ apJob'[w].at = "done")
                  => apFile' = apFile /\ apJob'[w].ret = 0]_vars

====
